---- MODULE Spec2Model ----
(***************************************************************************)
(* Playback session (PlayerContext.tsx), the YouTube embed adapter and the *)
(* player drawer that mounts it, and the default provider policy           *)
(* (resolveDefaultProvider) of harmony-hub.                                *)
(*                                                                         *)
(* React is modelled by what the code relies on: setState(updater) applies *)
(* the updater to the hook's latest state (`state`); the closures of the   *)
(* context value and the components read what the last render gave them    *)
(* (`value`, `drawer`); a render commits the hook state into both; and the *)
(* passive effects of a commit run before the next render.                 *)
(*                                                                         *)
(* Further sections: the link resolver and the link openers, the play      *)
(* event recorders, the like toggles and the feed page's navigation, and   *)
(* the Spotify account linking (client library and edge function). A call  *)
(* that awaits the backend is one step per request it sends: the answer of *)
(* a request and the code that runs up to the next request are one step.   *)
(***************************************************************************)
EXTENDS Integers, Sequences, FiniteSets, TLC

\* ------------------------------------------------------------- bounds
\* seek targets are the seconds 0..MaxSec
MaxSec == 1
\* play-event recordings that may be in flight at once
MaxInFlight == 1
\* rows of track_provider_links one track carries
MaxLinks == 2
\* calls of a link opener in one behaviour
MaxCalls == 2
\* toggle calls started in one behaviour
MaxToggles == 2
\* tracks.length of the feed
FeedLength == 2
\* how far outside the list currentIndex is followed
MaxOvershoot == 1
\* OAuth callbacks that arrive in one behaviour
MaxCallbacks == 2

\* ------------------------------------------------------------- values
\* JS null / undefined of a string-typed field
Null == "null"
\* an absent optional number or boolean; a present one is <<v>>
None == <<>>

Some(v) == <<v>>

\* a ?? d for an optional number or boolean
OrElse(a, d) == IF a = None THEN d ELSE a[1]

\* a ?? d for a nullable string
Coalesce(a, d) == IF a = Null THEN d ELSE a

MusicProvider == {"spotify", "apple_music", "deezer", "soundcloud", "youtube", "amazon_music"}

\* the providers the session transitions are exercised with
SessionProviders == {"youtube", "spotify"}

\* the providers the drawer is exercised with: one has no adapter of its own
DrawerProviders == {"youtube", "spotify", "apple_music"}

CanonicalTrackIds == {"t1", "t2"}

ProviderTrackIds == {"pt1"}

SectionIds == {"s1"}

Contexts == {"listen"}

Secs == 0..MaxSec

\* OpenPlayerPayload
OpenPlayerPayload ==
    [canonicalTrackId : CanonicalTrackIds \cup {Null},
     provider : DrawerProviders,
     providerTrackId : ProviderTrackIds \cup {Null},
     autoplay : {None, Some(TRUE), Some(FALSE)},
     context : Contexts \cup {Null},
     startSec : {None} \cup {Some(s) : s \in Secs}]

VARIABLES
    state,          \* PlayerState held by the useState hook (all updaters applied)
    value,          \* what the closures of the memoized context value read of the rendered state
    isMinimized,    \* drawer's useState hook
    drawer,         \* what the drawer and the adapter read at the last render
    effectPending,  \* the YouTube adapter's seek effect is scheduled for the last commit
    inflight,       \* recordPlayEvent promises not yet settled
    seekRequest,    \* the transition that last requested a seek since the last posted seek command
    last,           \* the step taken last: operation, arguments, what it emitted
    preferred,      \* what getPreferredProvider() returns: the stored preferred provider
    connected,      \* connected-provider status handed to the policy
    chosen,         \* TrackCard's defaultProvider
    browser,        \* the document: location, tabs opened, hidden iframes, notices, visibility
    timers,         \* setTimeout callbacks of openProviderLink not yet run
    user,           \* useAuth().user: the signed-in user or null
    tables,         \* rows of track_likes and user_interactions that belong to the user
    toggles,        \* toggle calls in flight: position in the code and what they read
    history,        \* start and settlement of every toggle call, in the order they happened
    currentIndex,   \* FeedPage's useState hook (all updaters applied)
    renderedIndex,  \* currentIndex as the handlers of the last render read it
    liked,          \* the liked state the card displays (the query's cached answer)
    route,          \* the router's location
    interactions,   \* the interactions Map of the FeedPage that keeps them in local state
    oauth_states,   \* rows of the oauth_states table
    providerTokens, \* the tokens stored for the user in user_providers and provider_accounts
    callbacks,      \* OAuth callbacks in flight: position in the code and what they read
    exchanges,      \* requests made to the provider's token endpoint
    clientTokens    \* provider tokens held by code running in the browser

vars == <<state, value, isMinimized, drawer, effectPending, inflight, seekRequest, last,
          preferred, connected, chosen, browser, timers,
          user, tables, toggles, history, currentIndex, renderedIndex, liked, route,
          interactions, oauth_states, providerTokens, callbacks, exchanges, clientTokens>>

drawerVars == <<isMinimized, drawer, effectPending, seekRequest>>

playerVars == <<state, value, isMinimized, drawer, effectPending, inflight, seekRequest>>

policyVars == <<preferred, connected, chosen>>

linkVars == <<browser, timers>>

feedVars == <<user, tables, toggles, history, currentIndex, renderedIndex, liked,
              route, interactions>>

oauthVars == <<oauth_states, providerTokens, callbacks, exchanges, clientTokens>>

\* ------------------------------------------------------------- session
\* useState initial value
InitialPlayerState ==
    [open |-> FALSE,
     canonicalTrackId |-> Null,
     provider |-> "youtube",
     providerTrackId |-> Null,
     autoplay |-> FALSE,
     seekToSec |-> None,
     currentSectionId |-> Null,
     isPlaying |-> FALSE]

\* the closures created by a render read state.canonicalTrackId of that render
Captured(s) == [canonicalTrackId |-> s.canonicalTrackId]

\* the props a render hands to the drawer (usePlayer() there and in the adapter)
DrawerProps(s, minimized) ==
    [open |-> s.open,
     provider |-> s.provider,
     providerTrackId |-> s.providerTrackId,
     seekToSec |-> s.seekToSec,
     isMinimized |-> minimized]

\* variant: the updater reads the canonical id of the render it was created in
PrevStale == [state EXCEPT !.canonicalTrackId = value.canonicalTrackId]

\* the state React hands to a functional updater as `prev`
Prev == state

seekToUpdater(prev, sec) == [prev EXCEPT !.seekToSec = Some(sec)]

clearSeekUpdater(prev) == [prev EXCEPT !.seekToSec = None]

setCurrentSectionUpdater(prev, sectionId) == [prev EXCEPT !.currentSectionId = sectionId]

setIsPlayingUpdater(prev, playing) == [prev EXCEPT !.isPlaying = playing]

\* variant: the payload's canonical id replaces the previous one even when omitted
openPlayerUpdaterNoFallback(prev, payload) ==
    [prev EXCEPT
        !.open = TRUE,
        !.canonicalTrackId = payload.canonicalTrackId,
        !.provider = payload.provider,
        !.providerTrackId = payload.providerTrackId,
        !.autoplay = OrElse(payload.autoplay, TRUE),
        !.seekToSec = payload.startSec]

openPlayerUpdater(prev, payload) ==
    [prev EXCEPT
        !.open = TRUE,
        !.canonicalTrackId = Coalesce(payload.canonicalTrackId, prev.canonicalTrackId),
        !.provider = payload.provider,
        !.providerTrackId = payload.providerTrackId,
        !.autoplay = OrElse(payload.autoplay, TRUE),
        !.seekToSec = payload.startSec]

\* variant: closing forgets the track that was playing
closePlayerUpdaterForgets(prev) ==
    [prev EXCEPT !.open = FALSE, !.autoplay = FALSE, !.seekToSec = None,
                 !.providerTrackId = Null]

closePlayerUpdater(prev) ==
    [prev EXCEPT !.open = FALSE, !.autoplay = FALSE, !.seekToSec = None]

\* variant: a pending seek survives the switch
switchProviderUpdaterKeepsSeek(prev, provider, providerTrackId, canonicalTrackId) ==
    [prev EXCEPT
        !.provider = provider,
        !.providerTrackId = providerTrackId,
        !.canonicalTrackId = Coalesce(canonicalTrackId, prev.canonicalTrackId),
        !.open = TRUE,
        !.autoplay = TRUE]

switchProviderUpdater(prev, provider, providerTrackId, canonicalTrackId) ==
    [prev EXCEPT
        !.provider = provider,
        !.providerTrackId = providerTrackId,
        !.canonicalTrackId = Coalesce(canonicalTrackId, prev.canonicalTrackId),
        !.open = TRUE,
        !.autoplay = TRUE,
        !.seekToSec = None]

\* the play event openPlayer records: only for a truthy payload.canonicalTrackId
openPlayerEvent(payload) ==
    IF payload.canonicalTrackId # Null
    THEN Some([track_id |-> payload.canonicalTrackId,
               provider |-> payload.provider,
               action |-> "preview",
               context |-> Coalesce(payload.context, "player")])
    ELSE None

\* the id switchProvider logs under: the argument, else the id its closure captured
trackIdToLog(canonicalTrackId) == Coalesce(canonicalTrackId, value.canonicalTrackId)

switchProviderEvent(provider, canonicalTrackId) ==
    IF trackIdToLog(canonicalTrackId) # Null
    THEN Some([track_id |-> trackIdToLog(canonicalTrackId),
               provider |-> provider,
               action |-> "preview",
               context |-> "provider-switch"])
    ELSE None

\* recordPlayEvent(...) is started and not awaited
Recorded(event) == IF event = None THEN inflight ELSE inflight + 1

CanRecord(event) == event = None \/ inflight < MaxInFlight

seekTo(sec) ==
    /\ state' = seekToUpdater(Prev, sec)
    /\ seekRequest' = "seekTo"
    /\ last' = [op |-> "seekTo", sec |-> sec]
    /\ UNCHANGED <<value, isMinimized, drawer, effectPending, inflight>>
    /\ UNCHANGED policyVars
    /\ UNCHANGED feedVars
    /\ UNCHANGED oauthVars
    /\ UNCHANGED linkVars

clearSeek ==
    /\ state' = clearSeekUpdater(Prev)
    /\ last' = [op |-> "clearSeek"]
    /\ UNCHANGED <<value, inflight>>
    /\ UNCHANGED drawerVars
    /\ UNCHANGED policyVars
    /\ UNCHANGED feedVars
    /\ UNCHANGED oauthVars
    /\ UNCHANGED linkVars

setCurrentSection(sectionId) ==
    /\ state' = setCurrentSectionUpdater(Prev, sectionId)
    /\ last' = [op |-> "setCurrentSection", sectionId |-> sectionId]
    /\ UNCHANGED <<value, inflight>>
    /\ UNCHANGED drawerVars
    /\ UNCHANGED policyVars
    /\ UNCHANGED feedVars
    /\ UNCHANGED oauthVars
    /\ UNCHANGED linkVars

setIsPlaying(playing) ==
    /\ state' = setIsPlayingUpdater(Prev, playing)
    /\ last' = [op |-> "setIsPlaying", playing |-> playing]
    /\ UNCHANGED <<value, inflight>>
    /\ UNCHANGED drawerVars
    /\ UNCHANGED policyVars
    /\ UNCHANGED feedVars
    /\ UNCHANGED oauthVars
    /\ UNCHANGED linkVars

openPlayer(payload) ==
    /\ CanRecord(openPlayerEvent(payload))
    /\ state' = openPlayerUpdater(Prev, payload)
    /\ inflight' = Recorded(openPlayerEvent(payload))
    /\ seekRequest' = (IF payload.startSec # None THEN "openPlayer" ELSE seekRequest)
    /\ last' = [op |-> "openPlayer", payload |-> payload, event |-> openPlayerEvent(payload)]
    /\ UNCHANGED <<value, isMinimized, drawer, effectPending>>
    /\ UNCHANGED policyVars
    /\ UNCHANGED feedVars
    /\ UNCHANGED oauthVars
    /\ UNCHANGED linkVars

closePlayer ==
    /\ state' = closePlayerUpdater(Prev)
    /\ last' = [op |-> "closePlayer"]
    /\ UNCHANGED <<value, inflight>>
    /\ UNCHANGED drawerVars
    /\ UNCHANGED policyVars
    /\ UNCHANGED feedVars
    /\ UNCHANGED oauthVars
    /\ UNCHANGED linkVars

switchProvider(provider, providerTrackId, canonicalTrackId) ==
    /\ CanRecord(switchProviderEvent(provider, canonicalTrackId))
    /\ state' = switchProviderUpdater(Prev, provider, providerTrackId, canonicalTrackId)
    /\ inflight' = Recorded(switchProviderEvent(provider, canonicalTrackId))
    /\ last' = [op |-> "switchProvider",
                provider |-> provider,
                providerTrackId |-> providerTrackId,
                canonicalTrackId |-> canonicalTrackId,
                held |-> state.canonicalTrackId,
                event |-> switchProviderEvent(provider, canonicalTrackId)]
    /\ UNCHANGED <<value>>
    /\ UNCHANGED drawerVars
    /\ UNCHANGED policyVars
    /\ UNCHANGED feedVars
    /\ UNCHANGED oauthVars
    /\ UNCHANGED linkVars

\* the recording promise resolves
RecordSucceeds ==
    /\ inflight > 0
    /\ inflight' = inflight - 1
    /\ last' = [op |-> "recordSucceeded"]
    /\ UNCHANGED <<state, value>>
    /\ UNCHANGED drawerVars
    /\ UNCHANGED policyVars
    /\ UNCHANGED feedVars
    /\ UNCHANGED oauthVars
    /\ UNCHANGED linkVars

\* variant: the catch handler undoes the transition by closing the player
RecordFailsRollback ==
    /\ inflight > 0
    /\ inflight' = inflight - 1
    /\ state' = closePlayerUpdater(state)
    /\ last' = [op |-> "recordFailed"]
    /\ UNCHANGED <<value>>
    /\ UNCHANGED drawerVars
    /\ UNCHANGED policyVars
    /\ UNCHANGED feedVars
    /\ UNCHANGED oauthVars
    /\ UNCHANGED linkVars

\* the recording promise rejects: .catch logs to console.error
RecordFails ==
    /\ inflight > 0
    /\ inflight' = inflight - 1
    /\ last' = [op |-> "recordFailed"]
    /\ UNCHANGED <<state, value>>
    /\ UNCHANGED drawerVars
    /\ UNCHANGED policyVars
    /\ UNCHANGED feedVars
    /\ UNCHANGED oauthVars
    /\ UNCHANGED linkVars

\* PlayerProvider re-renders: useMemo recreates the closures over the new state
RenderProvider ==
    /\ value # Captured(state)
    /\ value' = Captured(state)
    /\ last' = [op |-> "render"]
    /\ UNCHANGED <<state, inflight>>
    /\ UNCHANGED drawerVars
    /\ UNCHANGED policyVars
    /\ UNCHANGED feedVars
    /\ UNCHANGED oauthVars
    /\ UNCHANGED linkVars

\* ------------------------------------------------------------- drawer and adapters
\* the drawer renders its body when the session is open and it is not minimized
DrawerBody(d) == d.open /\ ~d.isMinimized

renderPlayer(d) == IF d.provider = "spotify" THEN "SpotifyEmbedPreview" ELSE "YouTubePlayer"

\* the adapter component mounted by a render
Adapter(d) == IF DrawerBody(d) THEN renderPlayer(d) ELSE "none"

\* YouTubePlayer renders its iframe only for a track id (src is null otherwise)
IframePresent(d) == Adapter(d) = "YouTubePlayer" /\ d.providerTrackId # Null

\* minimize / expand button of the drawer header
ToggleMinimized ==
    /\ drawer.open
    /\ isMinimized' = ~isMinimized
    /\ last' = [op |-> "toggleMinimized"]
    /\ UNCHANGED <<state, value, drawer, effectPending, inflight, seekRequest>>
    /\ UNCHANGED policyVars
    /\ UNCHANGED feedVars
    /\ UNCHANGED oauthVars
    /\ UNCHANGED linkVars

\* close button of the drawer header: setIsMinimized(false); closePlayer()
CloseButton ==
    /\ drawer.open
    /\ isMinimized' = FALSE
    /\ state' = closePlayerUpdater(Prev)
    /\ last' = [op |-> "closePlayer"]
    /\ UNCHANGED <<value, drawer, effectPending, inflight, seekRequest>>
    /\ UNCHANGED policyVars
    /\ UNCHANGED feedVars
    /\ UNCHANGED oauthVars
    /\ UNCHANGED linkVars

\* useEffect(..., [seekToSec, clearSeek]) of YouTubePlayer runs on mount and when
\* the rendered seekToSec differs from the one of the previous render
SeekEffectScheduled(old, new) ==
    /\ Adapter(new) = "YouTubePlayer"
    /\ \/ Adapter(old) # "YouTubePlayer"
       \/ new.seekToSec # old.seekToSec

\* React re-renders PlayerProvider, the drawer and the adapter, and commits;
\* the passive effects of the previous commit have run by then
Render ==
    /\ ~effectPending
    /\ value # Captured(state) \/ drawer # DrawerProps(state, isMinimized)
    /\ value' = Captured(state)
    /\ drawer' = DrawerProps(state, isMinimized)
    /\ effectPending' = SeekEffectScheduled(drawer, DrawerProps(state, isMinimized))
    /\ last' = [op |-> "render"]
    /\ UNCHANGED <<state, isMinimized, inflight, seekRequest>>
    /\ UNCHANGED policyVars
    /\ UNCHANGED feedVars
    /\ UNCHANGED oauthVars
    /\ UNCHANGED linkVars

\* the effect's condition: seekToSec !== null && iframeRef.current?.contentWindow
SeekEffectPosts == drawer.seekToSec # None /\ IframePresent(drawer)

\* variant: the command is posted and clearSeek() is not called
YouTubeSeekEffectNoClear ==
    /\ effectPending
    /\ effectPending' = FALSE
    /\ IF SeekEffectPosts
       THEN /\ seekRequest' = "none"
            /\ last' = [op |-> "effect", posted |-> drawer.seekToSec]
       ELSE /\ seekRequest' = seekRequest
            /\ last' = [op |-> "effect", posted |-> None]
    /\ UNCHANGED <<state, value, isMinimized, drawer, inflight>>
    /\ UNCHANGED policyVars
    /\ UNCHANGED feedVars
    /\ UNCHANGED oauthVars
    /\ UNCHANGED linkVars

\* the seek effect of YouTubePlayer: postMessage(seekTo command), then clearSeek()
YouTubeSeekEffect ==
    /\ effectPending
    /\ effectPending' = FALSE
    /\ IF SeekEffectPosts
       THEN /\ state' = clearSeekUpdater(Prev)
            /\ seekRequest' = "none"
            /\ last' = [op |-> "effect", posted |-> drawer.seekToSec]
       ELSE /\ state' = state
            /\ seekRequest' = seekRequest
            /\ last' = [op |-> "effect", posted |-> None]
    /\ UNCHANGED <<value, isMinimized, drawer, inflight>>
    /\ UNCHANGED policyVars
    /\ UNCHANGED feedVars
    /\ UNCHANGED oauthVars
    /\ UNCHANGED linkVars

\* ------------------------------------------------------------- default provider policy
\* what the preference store may hold: a provider id, "none", nothing, or anything else
PreferenceValues == MusicProvider \cup {"none", Null, "last.fm"}

\* ConnectedProviders values: undefined, {} and {spotify: {connected, premium}}
ConnectedValues ==
    {None, Some([spotify |-> None])}
        \cup {Some([spotify |-> Some([connected |-> c, premium |-> p])]) : c, p \in BOOLEAN}

defaultConnectedProviders == Some([spotify |-> Some([connected |-> FALSE, premium |-> FALSE])])

\* connected?.spotify?.connected
SpotifyConnected(conn) ==
    /\ conn # None
    /\ conn[1].spotify # None
    /\ conn[1].spotify[1].connected

\* variant: a spotify preference is honoured without the connection gate
resolveDefaultProviderUngated(conn) ==
    IF preferred # Null
       /\ preferred \in {"spotify", "youtube", "apple_music"}
    THEN preferred
    ELSE IF SpotifyConnected(conn) THEN "spotify" ELSE "youtube"

\* variant: connected.spotify.connected without optional chaining
resolveDefaultProviderUnchained(conn) ==
    IF conn = None \/ conn[1].spotify = None
    THEN "TypeError"
    ELSE IF preferred # Null /\ preferred = "spotify"
            /\ conn[1].spotify[1].connected
         THEN "spotify"
         ELSE IF preferred # Null
                 /\ (preferred = "youtube" \/ preferred = "apple_music")
              THEN preferred
              ELSE IF conn[1].spotify[1].connected THEN "spotify" ELSE "youtube"

resolveDefaultProvider(conn) ==
    IF preferred # Null /\ preferred = "spotify" /\ SpotifyConnected(conn)
    THEN "spotify"
    ELSE IF preferred # Null
            /\ (preferred = "youtube" \/ preferred = "apple_music")
         THEN preferred
         ELSE IF SpotifyConnected(conn) THEN "spotify" ELSE "youtube"

\* the settings action stores a preference
PreferenceStored(p) ==
    /\ preferred' = p
    /\ last' = [op |-> "preferenceStored"]
    /\ UNCHANGED <<connected, chosen>>
    /\ UNCHANGED feedVars
    /\ UNCHANGED oauthVars
    /\ UNCHANGED playerVars
    /\ UNCHANGED linkVars

\* useConnectedProviders delivers a status
ConnectedProvidersFetched(c) ==
    /\ connected' = c
    /\ last' = [op |-> "connectedProvidersFetched"]
    /\ UNCHANGED <<preferred, chosen>>
    /\ UNCHANGED feedVars
    /\ UNCHANGED oauthVars
    /\ UNCHANGED playerVars
    /\ UNCHANGED linkVars

\* TrackCard computes defaultProvider
ResolveDefault ==
    /\ chosen' = resolveDefaultProvider(connected)
    /\ last' = [op |-> "resolveDefaultProvider",
                preferred |-> preferred,
                connected |-> connected,
                result |-> resolveDefaultProvider(connected)]
    /\ UNCHANGED <<preferred, connected>>
    /\ UNCHANGED feedVars
    /\ UNCHANGED oauthVars
    /\ UNCHANGED playerVars
    /\ UNCHANGED linkVars

\* ------------------------------------------------------------- link resolver
\* a string the JavaScript conditions treat as present
Truthy(x) == x # Null /\ x # ""

\* provider ids a link row may carry: two of MusicProvider and one outside it
LinkProviders == {"spotify", "youtube", "tidal"}

\* provider track ids of the legacy fields and of the link rows
LegacyIds == {"abc"}

\* URLs the backend stores for a provider; they differ from the generated ones
BackendUrlWeb(provider) == "https://links.example/" \o provider \o "/abc"

BackendUrlApp(provider) == provider \o "-app://abc"

\* rows of track_provider_links as feed.ts hands them over
TrackProviderLink ==
    UNION {[provider : {p},
            provider_track_id : LegacyIds,
            url_web : {Null, BackendUrlWeb(p)},
            url_app : {Null, BackendUrlApp(p)}] : p \in LinkProviders}

\* the rows of one track: UNIQUE (track_id, provider) keeps the providers distinct
ProviderLinkLists ==
    {list \in UNION {[1..n -> TrackProviderLink] : n \in 0..MaxLinks} :
        \A i, j \in 1..Len(list) : i # j => list[i].provider # list[j].provider}

TrackProviderInfo ==
    [spotifyId : LegacyIds \cup {Null},
     youtubeId : LegacyIds \cup {Null},
     urlSpotifyWeb : {Null, BackendUrlWeb("spotify")},
     urlSpotifyApp : {Null, BackendUrlApp("spotify")},
     urlYoutube : {Null, BackendUrlWeb("youtube")},
     providerLinks : {None} \cup {Some(list) : list \in ProviderLinkLists}]

generateSpotifyLinks(spotifyId) ==
    [web |-> "https://open.spotify.com/track/" \o spotifyId,
     app |-> "spotify:track:" \o spotifyId]

generateYoutubeLink(youtubeId) == "https://www.youtube.com/watch?v=" \o youtubeId

\* display names; icon and color play no part in resolution
PROVIDER_INFO ==
    [p \in MusicProvider |->
        [name |-> CASE p = "spotify" -> "Spotify"
                    [] p = "youtube" -> "YouTube"
                    [] p = "apple_music" -> "Apple Music"
                    [] p = "deezer" -> "Deezer"
                    [] p = "soundcloud" -> "SoundCloud"
                    [] p = "amazon_music" -> "Amazon Music"]]

\* variant: the URLs of a row are regenerated from its provider track id
MapProviderLinkRegenerated(link) ==
    [provider |-> link.provider,
     name |-> PROVIDER_INFO[link.provider].name,
     webUrl |-> IF link.provider = "spotify"
                THEN generateSpotifyLinks(link.provider_track_id).web
                ELSE generateYoutubeLink(link.provider_track_id),
     appUrl |-> link.url_app,
     trackId |-> link.provider_track_id]

\* the callback of providerLinks.map
MapProviderLink(link) ==
    [provider |-> link.provider,
     name |-> PROVIDER_INFO[link.provider].name,
     webUrl |-> IF Truthy(link.url_web) THEN link.url_web ELSE "",
     appUrl |-> link.url_app,
     trackId |-> link.provider_track_id]

\* the callback of .filter
HasUrl(link) == Truthy(link.webUrl) \/ Truthy(link.appUrl)

\* the legacy spotify fields
LegacySpotifyLinks(track) ==
    IF Truthy(track.spotifyId) \/ Truthy(track.urlSpotifyWeb)
    THEN LET spotifyLinks ==
                 IF Truthy(track.spotifyId)
                 THEN generateSpotifyLinks(track.spotifyId)
                 ELSE [web |-> track.urlSpotifyWeb, app |-> track.urlSpotifyApp]
         IN  <<[provider |-> "spotify",
                name |-> "Spotify",
                webUrl |-> spotifyLinks.web,
                appUrl |-> spotifyLinks.app,
                trackId |-> IF Truthy(track.spotifyId) THEN track.spotifyId ELSE ""]>>
    ELSE <<>>

\* the legacy youtube fields; the link gets no appUrl
LegacyYoutubeLinks(track) ==
    IF Truthy(track.youtubeId) \/ Truthy(track.urlYoutube)
    THEN LET youtubeUrl ==
                 IF Truthy(track.youtubeId)
                 THEN generateYoutubeLink(track.youtubeId)
                 ELSE track.urlYoutube
         IN  <<[provider |-> "youtube",
                name |-> "YouTube (Free)",
                webUrl |-> youtubeUrl,
                appUrl |-> Null,
                trackId |-> IF Truthy(track.youtubeId) THEN track.youtubeId ELSE ""]>>
    ELSE <<>>

\* 'providerLinks' in track && track.providerLinks && track.providerLinks.length > 0
HasProviderLinks(track) ==
    track.providerLinks # None /\ Len(track.providerLinks[1]) > 0

\* variant: the rows are mapped and the legacy links are appended to them
getProviderLinksAppends(track) ==
    IF HasProviderLinks(track)
    THEN LET list == track.providerLinks[1]
         IN  IF \E i \in 1..Len(list) : list[i].provider \notin DOMAIN PROVIDER_INFO
             THEN [threw |-> TRUE, links |-> <<>>]
             ELSE [threw |-> FALSE,
                   links |-> SelectSeq([i \in 1..Len(list) |-> MapProviderLink(list[i])], HasUrl)
                                 \o LegacySpotifyLinks(track) \o LegacyYoutubeLinks(track)]
    ELSE [threw |-> FALSE, links |-> LegacySpotifyLinks(track) \o LegacyYoutubeLinks(track)]

\* getProviderLinks: the result list, or threw when PROVIDER_INFO[link.provider] is
\* undefined and its name is read
getProviderLinks(track) ==
    IF HasProviderLinks(track)
    THEN LET list == track.providerLinks[1]
         IN  IF \E i \in 1..Len(list) : list[i].provider \notin DOMAIN PROVIDER_INFO
             THEN [threw |-> TRUE, links |-> <<>>]
             ELSE [threw |-> FALSE,
                   links |-> SelectSeq([i \in 1..Len(list) |-> MapProviderLink(list[i])], HasUrl)]
    ELSE [threw |-> FALSE, links |-> LegacySpotifyLinks(track) \o LegacyYoutubeLinks(track)]

\* generateFallbackUrl: Null stands for the null of the default case
generateFallbackUrl(provider, trackId) ==
    CASE provider = "spotify" -> "https://open.spotify.com/track/" \o trackId
      [] provider = "youtube" -> "https://www.youtube.com/watch?v=" \o trackId
      [] provider = "apple_music" -> "https://music.apple.com/us/song/" \o trackId
      [] provider = "deezer" -> "https://www.deezer.com/track/" \o trackId
      [] provider = "soundcloud" -> "https://soundcloud.com/" \o trackId
      [] provider = "amazon_music" -> "https://music.amazon.com/albums/" \o trackId
      [] OTHER -> Null

\* the feed hands a track to a component (one track per behaviour)
TrackFetched(track) ==
    /\ last.op = "init"
    /\ last' = [op |-> "fetchFeed", track |-> track]
    /\ UNCHANGED playerVars
    /\ UNCHANGED policyVars
    /\ UNCHANGED feedVars
    /\ UNCHANGED oauthVars
    /\ UNCHANGED linkVars

\* the component resolves the links of the track it was handed
ResolveLinks ==
    /\ last.op = "fetchFeed"
    /\ last' = [op |-> "getProviderLinks",
                track |-> last.track,
                result |-> getProviderLinks(last.track)]
    /\ UNCHANGED playerVars
    /\ UNCHANGED policyVars
    /\ UNCHANGED feedVars
    /\ UNCHANGED oauthVars
    /\ UNCHANGED linkVars

\* a caller asks for the fallback URL of a provider track
GenerateFallbackUrl(provider, trackId) ==
    /\ last.op = "init"
    /\ last' = [op |-> "generateFallbackUrl",
                provider |-> provider,
                trackId |-> trackId,
                result |-> generateFallbackUrl(provider, trackId)]
    /\ UNCHANGED playerVars
    /\ UNCHANGED policyVars
    /\ UNCHANGED feedVars
    /\ UNCHANGED oauthVars
    /\ UNCHANGED linkVars

\* ------------------------------------------------------------- link opener
\* resolved links handed to the opener: with and without a web URL and an app URL
OpenerLinks ==
    UNION {[provider : {p},
            name : {PROVIDER_INFO[p].name},
            webUrl : {"", BackendUrlWeb(p)},
            appUrl : {Null, BackendUrlApp(p)},
            trackId : LegacyIds] : p \in {"spotify", "youtube"}}

formatProviderName(provider) ==
    CASE provider = "spotify" -> "Spotify"
      [] provider = "youtube" -> "YouTube Music"
      [] provider = "apple_music" -> "Apple Music"
      [] provider = "deezer" -> "Deezer"
      [] provider = "soundcloud" -> "SoundCloud"
      [] provider = "amazon_music" -> "Amazon Music"
      [] OTHER -> provider

\* document.visibilityState === 'visible'
visibilityVisible == browser.visible

\* document.hasFocus(), read off the same foreground signal
hasFocus == browser.visible

\* window.open(url, '_blank', 'noopener,noreferrer')
windowOpen(b, url) == [b EXCEPT !.tabs = Append(@, url)]

\* toast.error(message)
toastError(b, message) == [b EXCEPT !.toasts = Append(@, message)]

\* setTimeout callbacks run in the order of their due times; due is counted in ms from
\* the call that set the timer, and a later call is not earlier in time
Due(timer) ==
    /\ timer \in timers
    /\ \A other \in timers \ {timer} :
           ~(other.call <= timer.call /\ other.due <= timer.due)

\* the opener is called from a click on the visible page, MaxCalls times at most
CanCall == browser.visible /\ browser.calls < MaxCalls

\* openProviderLink of the module with the normalized resolver (toast on no link)
openProviderLink(link, preferApp, throws) ==
    /\ CanCall
    /\ LET called == [browser EXCEPT !.calls = @ + 1]
       IN  IF preferApp /\ Truthy(link.appUrl) /\ ~throws
           THEN /\ browser' = [called EXCEPT !.location = link.appUrl]
                /\ timers' = timers \cup {[call |-> called.calls, kind |-> "fallback",
                                           due |-> 1500, link |-> link]}
           ELSE /\ browser' = IF Truthy(link.webUrl)
                              THEN windowOpen(called, link.webUrl)
                              ELSE toastError(called, "No link available for " \o link.name)
                /\ timers' = timers
    /\ last' = [op |-> "openProviderLink", link |-> link, preferApp |-> preferApp,
                threw |-> preferApp /\ Truthy(link.appUrl) /\ throws]
    /\ UNCHANGED playerVars
    /\ UNCHANGED policyVars
    /\ UNCHANGED feedVars
    /\ UNCHANGED oauthVars

\* its 1500 ms callback
FallbackTimer(timer) ==
    /\ Due(timer)
    /\ timer.kind = "fallback"
    /\ timers' = timers \ {timer}
    /\ browser' = IF visibilityVisible /\ Truthy(timer.link.webUrl)
                  THEN windowOpen(browser, timer.link.webUrl)
                  ELSE browser
    /\ last' = [op |-> "fallbackTimer", link |-> timer.link, visible |-> browser.visible]
    /\ UNCHANGED playerVars
    /\ UNCHANGED policyVars
    /\ UNCHANGED feedVars
    /\ UNCHANGED oauthVars

\* openProviderLink over ProviderLinkData (fallback URL generated when no URL is stored)
openProviderLinkData(link, preferApp, throws) ==
    /\ CanCall
    /\ LET called == [browser EXCEPT !.calls = @ + 1]
           fallbackUrl == generateFallbackUrl(link.provider, link.provider_track_id)
       IN  IF preferApp /\ Truthy(link.url_app) /\ ~throws
           THEN /\ browser' = [called EXCEPT !.location = link.url_app]
                /\ timers' = timers \cup {[call |-> called.calls, kind |-> "fallbackData",
                                           due |-> 1500, link |-> link]}
           ELSE /\ browser' =
                       IF Truthy(link.url_web)
                       THEN windowOpen(called, link.url_web)
                       ELSE IF Truthy(fallbackUrl)
                            THEN windowOpen(called, fallbackUrl)
                            ELSE toastError(called, "No link available for "
                                                        \o formatProviderName(link.provider))
                /\ timers' = timers
    /\ last' = [op |-> "openProviderLinkData", link |-> link, preferApp |-> preferApp,
                threw |-> preferApp /\ Truthy(link.url_app) /\ throws]
    /\ UNCHANGED playerVars
    /\ UNCHANGED policyVars
    /\ UNCHANGED feedVars
    /\ UNCHANGED oauthVars

\* its 1500 ms callback
FallbackDataTimer(timer) ==
    /\ Due(timer)
    /\ timer.kind = "fallbackData"
    /\ timers' = timers \ {timer}
    /\ browser' = IF visibilityVisible
                  THEN IF Truthy(timer.link.url_web)
                       THEN windowOpen(browser, timer.link.url_web)
                       ELSE toastError(browser, "No web link available for "
                                                    \o formatProviderName(timer.link.provider))
                  ELSE browser
    /\ last' = [op |-> "fallbackDataTimer", link |-> timer.link, visible |-> browser.visible]
    /\ UNCHANGED playerVars
    /\ UNCHANGED policyVars
    /\ UNCHANGED feedVars
    /\ UNCHANGED oauthVars

\* body of openProviderLink of lib/providers.ts: the app URL goes into a hidden iframe
OpenHidden(link, preferApp) ==
    LET called == [browser EXCEPT !.calls = @ + 1]
    IN  IF preferApp /\ Truthy(link.appUrl)
        THEN /\ browser' = [called EXCEPT !.iframes = @ \cup {[call |-> called.calls,
                                                                src |-> link.appUrl]}]
             /\ timers' = timers \cup
                    {[call |-> called.calls, kind |-> "removeIframe", due |-> 2000,
                      link |-> link],
                     [call |-> called.calls, kind |-> "fallbackHidden", due |-> 1500,
                      link |-> link]}
        ELSE /\ browser' = windowOpen(called, link.webUrl)
             /\ timers' = timers

\* openProviderLink of lib/providers.ts
openProviderLinkHidden(link, preferApp) ==
    /\ CanCall
    /\ OpenHidden(link, preferApp)
    /\ last' = [op |-> "openProviderLinkHidden", link |-> link, preferApp |-> preferApp,
                threw |-> FALSE]
    /\ UNCHANGED playerVars
    /\ UNCHANGED policyVars
    /\ UNCHANGED feedVars
    /\ UNCHANGED oauthVars

\* its 2000 ms callback removes the hidden iframe
RemoveIframeTimer(timer) ==
    /\ Due(timer)
    /\ timer.kind = "removeIframe"
    /\ timers' = timers \ {timer}
    /\ browser' = [browser EXCEPT !.iframes = @ \ {[call |-> timer.call,
                                                    src |-> timer.link.appUrl]}]
    /\ last' = [op |-> "removeIframeTimer", link |-> timer.link, visible |-> browser.visible]
    /\ UNCHANGED playerVars
    /\ UNCHANGED policyVars
    /\ UNCHANGED feedVars
    /\ UNCHANGED oauthVars

\* its 1500 ms callback: for spotify the web URL goes into another hidden iframe
FallbackHiddenTimer(timer) ==
    /\ Due(timer)
    /\ timer.kind = "fallbackHidden"
    /\ IF hasFocus
       THEN IF timer.link.provider = "spotify"
            THEN /\ browser' = [browser EXCEPT !.iframes = @ \cup {[call |-> timer.call,
                                                                    src |-> timer.link.webUrl]}]
                 /\ timers' = (timers \ {timer}) \cup
                        {[call |-> timer.call, kind |-> "removeWebIframe", due |-> 4500,
                          link |-> timer.link]}
            ELSE /\ browser' = windowOpen(browser, timer.link.webUrl)
                 /\ timers' = timers \ {timer}
       ELSE /\ browser' = browser
            /\ timers' = timers \ {timer}
    /\ last' = [op |-> "fallbackHiddenTimer", link |-> timer.link, visible |-> browser.visible]
    /\ UNCHANGED playerVars
    /\ UNCHANGED policyVars
    /\ UNCHANGED feedVars
    /\ UNCHANGED oauthVars

\* the callback set 3000 ms after the fallback removes the hidden web iframe
RemoveWebIframeTimer(timer) ==
    /\ Due(timer)
    /\ timer.kind = "removeWebIframe"
    /\ timers' = timers \ {timer}
    /\ browser' = [browser EXCEPT !.iframes = @ \ {[call |-> timer.call,
                                                    src |-> timer.link.webUrl]}]
    /\ last' = [op |-> "removeWebIframeTimer", link |-> timer.link, visible |-> browser.visible]
    /\ UNCHANGED playerVars
    /\ UNCHANGED policyVars
    /\ UNCHANGED feedVars
    /\ UNCHANGED oauthVars

\* SearchPage hands the five legacy fields of a track to the resolver
LegacyTrackInfo == {track \in TrackProviderInfo : track.providerLinks = None}

\* spotifyLink || youtubeLink || links[0]
PreferredLink(links) ==
    IF \E i \in 1..Len(links) : links[i].provider = "spotify"
    THEN Some(links[CHOOSE i \in 1..Len(links) : links[i].provider = "spotify"])
    ELSE IF \E i \in 1..Len(links) : links[i].provider = "youtube"
         THEN Some(links[CHOOSE i \in 1..Len(links) : links[i].provider = "youtube"])
         ELSE IF Len(links) > 0 THEN Some(links[1]) ELSE None

\* handlePlayOnProvider of SearchPage
handlePlayOnProvider(track) ==
    /\ CanCall
    /\ LET link == PreferredLink(getProviderLinks(track).links)
       IN  /\ IF link # None
              THEN OpenHidden(link[1], TRUE)
              ELSE UNCHANGED linkVars
           /\ last' = [op |-> "handlePlayOnProvider", track |-> track, link |-> link]
    /\ UNCHANGED playerVars
    /\ UNCHANGED policyVars
    /\ UNCHANGED feedVars
    /\ UNCHANGED oauthVars

\* an app or another tab takes the foreground
PageHidden ==
    /\ browser.visible
    /\ browser' = [browser EXCEPT !.visible = FALSE]
    /\ last' = [op |-> "pageHidden"]
    /\ UNCHANGED timers
    /\ UNCHANGED playerVars
    /\ UNCHANGED policyVars
    /\ UNCHANGED feedVars
    /\ UNCHANGED oauthVars

\* the user comes back to the page
PageVisible ==
    /\ ~browser.visible
    /\ browser' = [browser EXCEPT !.visible = TRUE]
    /\ last' = [op |-> "pageVisible"]
    /\ UNCHANGED timers
    /\ UNCHANGED playerVars
    /\ UNCHANGED policyVars
    /\ UNCHANGED feedVars
    /\ UNCHANGED oauthVars

\* ------------------------------------------------------------- play-event recorder
PlayAction == {"open_app", "open_web", "preview"}

RecordPlayEventParams ==
    [track_id : CanonicalTrackIds,
     provider : MusicProvider,
     action : PlayAction,
     context : Contexts \cup {"provider-switch", Null}]

\* what the awaited insert does: a row comes back, the backend answers with an error,
\* or the network call rejects
InsertOutcomes == {"inserted", "error", "rejects"}

\* what supabase.auth.getUser() does
AuthOutcomes == {"user", "anonymous", "rejects"}

\* recordPlayEvent of api/playEvents.ts: if (error) throw error, and nothing is caught
recordPlayEvent(params, insert) ==
    IF insert = "inserted"
    THEN [settled |-> "resolved", logged |-> FALSE]
    ELSE [settled |-> "rejected", logged |-> FALSE]

\* the non-hook recorder writing user_interactions: everything sits in try/catch
recordPlayEventInteraction(params, auth, insert) ==
    IF auth = "rejects" \/ (auth = "user" /\ insert = "rejects")
    THEN [settled |-> "resolved", logged |-> TRUE]
    ELSE [settled |-> "resolved", logged |-> FALSE]

\* mutationFn of useRecordPlayEvent: an error answer is logged and mock data returned
recordPlayEventMutation(params, insert) ==
    CASE insert = "inserted" -> [settled |-> "resolved", logged |-> FALSE]
      [] insert = "error" -> [settled |-> "resolved", logged |-> TRUE]
      [] insert = "rejects" -> [settled |-> "rejected", logged |-> FALSE]

\* one recording per behaviour, by either recorder
RecordPlayEvent(params, insert) ==
    /\ last.op = "init"
    /\ last' = [op |-> "recordPlayEvent", params |-> params, insert |-> insert,
                result |-> recordPlayEvent(params, insert)]
    /\ UNCHANGED playerVars
    /\ UNCHANGED policyVars
    /\ UNCHANGED feedVars
    /\ UNCHANGED oauthVars
    /\ UNCHANGED linkVars

RecordPlayEventInteraction(params, auth, insert) ==
    /\ last.op = "init"
    /\ last' = [op |-> "recordPlayEventInteraction", params |-> params, insert |-> insert,
                auth |-> auth, result |-> recordPlayEventInteraction(params, auth, insert)]
    /\ UNCHANGED playerVars
    /\ UNCHANGED policyVars
    /\ UNCHANGED feedVars
    /\ UNCHANGED oauthVars
    /\ UNCHANGED linkVars

RecordPlayEventMutation(params, insert) ==
    /\ last.op = "init"
    /\ last' = [op |-> "recordPlayEventMutation", params |-> params, insert |-> insert,
                result |-> recordPlayEventMutation(params, insert)]
    /\ UNCHANGED playerVars
    /\ UNCHANGED policyVars
    /\ UNCHANGED feedVars
    /\ UNCHANGED oauthVars
    /\ UNCHANGED linkVars

\* ------------------------------------------------------------- likes and feed
\* the feed's tracks are tracks[0] .. tracks[FeedLength - 1]
TrackIndexes == 0 .. (FeedLength - 1)

\* the interaction types the feed's card offers
InteractionTypes == {"like", "skip"}

\* the table a toggle of the type reads and writes
TableOf(interactionType) ==
    IF interactionType = "like" THEN "track_likes" ELSE "user_interactions"

\* .eq('user_id', userId).eq('track_id', trackId): the user's rows of the track
Rows(table, track) == {row \in tables[table] : row.track = track}

\* toggle calls started so far
Started == Cardinality({i \in 1 .. Len(history) : history[i].ev = "start"})

\* a call passes its guards: the select is sent
StartToggle(origin, interactionType, track) ==
    LET call == Started + 1 IN
    /\ Started < MaxToggles
    /\ toggles' = toggles @@ (call :> [origin |-> origin,
                                       type |-> interactionType,
                                       track |-> track,
                                       index |-> renderedIndex,
                                       pc |-> "select",
                                       existing |-> None,
                                       before |-> Rows(TableOf(interactionType), track) # {},
                                       healthy |-> TRUE])
    /\ history' = Append(history, [ev |-> "start", call |-> call])

\* a handler that returns at its guard
NoToggle == UNCHANGED <<toggles, history>>

\* what a handler leaves in `last`: the backend requests it sent, the notice it showed
Handled(op, requests, notice) == [op |-> op, requests |-> requests, notice |-> notice]

\* a handleInteraction that does not look at the user
handleInteractionUnguarded(interactionType) ==
    /\ route = "/"
    /\ renderedIndex \in TrackIndexes
    /\ StartToggle("handleInteraction", interactionType, renderedIndex)
    /\ last' = Handled("handleInteraction", 1, Null)
    /\ UNCHANGED <<user, tables, currentIndex, renderedIndex, liked, route, interactions>>
    /\ UNCHANGED playerVars
    /\ UNCHANGED policyVars
    /\ UNCHANGED linkVars
    /\ UNCHANGED oauthVars

\* FeedPage.handleInteraction up to its await
handleInteraction(interactionType) ==
    /\ route = "/"
    /\ IF user = Null
         THEN /\ route' = "/auth"
              /\ NoToggle
              /\ last' = Handled("handleInteraction", 0, Null)
         ELSE IF renderedIndex \notin TrackIndexes
           THEN /\ NoToggle
                /\ last' = Handled("handleInteraction", 0, Null)
                /\ UNCHANGED route
           ELSE /\ StartToggle("handleInteraction", interactionType, renderedIndex)
                /\ last' = Handled("handleInteraction", 1, Null)
                /\ UNCHANGED route
    /\ UNCHANGED <<user, tables, currentIndex, renderedIndex, liked, interactions>>
    /\ UNCHANGED playerVars
    /\ UNCHANGED policyVars
    /\ UNCHANGED linkVars
    /\ UNCHANGED oauthVars

\* useToggleLike().mutate(trackId): the mutationFn up to its first await, or its throw
\* and onError
useToggleLike(track) ==
    /\ route = "/"
    /\ IF user = Null
         THEN /\ NoToggle
              /\ last' = Handled("useToggleLike", 0, "Failed to update like")
         ELSE /\ StartToggle("useToggleLike", "like", track)
              /\ last' = Handled("useToggleLike", 1, Null)
    /\ UNCHANGED <<user, tables, currentIndex, renderedIndex, liked, route, interactions>>
    /\ UNCHANGED playerVars
    /\ UNCHANGED policyVars
    /\ UNCHANGED linkVars
    /\ UNCHANGED oauthVars

\* TrackCard's handleLike in front of the mutation
handleLike(track) ==
    /\ route = "/"
    /\ IF user = Null
         THEN /\ NoToggle
              /\ last' = Handled("handleLike", 0, "Sign in to like tracks")
         ELSE /\ StartToggle("useToggleLike", "like", track)
              /\ last' = Handled("handleLike", 1, Null)
    /\ UNCHANGED <<user, tables, currentIndex, renderedIndex, liked, route, interactions>>
    /\ UNCHANGED playerVars
    /\ UNCHANGED policyVars
    /\ UNCHANGED linkVars
    /\ UNCHANGED oauthVars

\* the select of a call is answered; an error answer is not looked at, its data is null;
\* the call goes on to send its delete or its insert
SelectAnswers(call, ok) ==
    /\ call \in DOMAIN toggles
    /\ toggles[call].pc = "select"
    /\ LET found == Rows(TableOf(toggles[call].type), toggles[call].track)
           existing == IF ok /\ found # {} THEN Some((CHOOSE row \in found : TRUE).id) ELSE None
       IN toggles' = [toggles EXCEPT ![call].pc = "write",
                                     ![call].existing = existing,
                                     ![call].healthy = ok]
    /\ last' = [op |-> "select", call |-> call, requests |-> 1, notice |-> Null]
    /\ UNCHANGED <<user, tables, history, currentIndex, renderedIndex, liked, route, interactions>>
    /\ UNCHANGED playerVars
    /\ UNCHANGED policyVars
    /\ UNCHANGED linkVars
    /\ UNCHANGED oauthVars

\* UNIQUE(user_id, track_id) and UNIQUE(user_id, track_id, interaction_type): an insert
\* of a second row for the track is answered with an error
Conflict(call) ==
    /\ toggles[call].existing = None
    /\ Rows(TableOf(toggles[call].type), toggles[call].track) # {}

\* what the call resolves to; a rejection is "error"
ToggleAction(call, ok) ==
    IF ~ok \/ Conflict(call) THEN "error"
    ELSE IF toggles[call].existing # None THEN "removed"
    ELSE "added"

\* a write whose delete removes nothing
WrittenInsertOnly(call, ok) ==
    LET table == tables[TableOf(toggles[call].type)] IN
    IF ToggleAction(call, ok) = "error" \/ toggles[call].existing # None THEN table
    ELSE table \cup {[id |-> call, track |-> toggles[call].track]}

\* the table after the delete .eq('id', existing.id) or the insert
Written(call, ok) ==
    LET table == tables[TableOf(toggles[call].type)] IN
    IF ToggleAction(call, ok) = "error" THEN table
    ELSE IF toggles[call].existing # None
      THEN {row \in table : row.id # toggles[call].existing[1]}
      ELSE table \cup {[id |-> call, track |-> toggles[call].track]}

\* a settlement that shows nothing
ToggleNoticeSilent(call, ok) == Null

\* the notice of the code that awaited the call
ToggleNotice(call, ok) ==
    LET action == ToggleAction(call, ok) IN
    IF toggles[call].origin = "handleInteraction"
      THEN IF action = "error" THEN "Failed to save interaction"
           ELSE IF action = "added"
             THEN IF toggles[call].type = "like" THEN "Liked track" ELSE "Added track"
             ELSE Null
      ELSE IF action = "error" THEN "Failed to update like" ELSE Null

\* FeedPage.handleInteraction after its await: auto-advance on skip
AutoAdvance(call, ok) ==
    /\ toggles[call].origin = "handleInteraction"
    /\ ToggleAction(call, ok) # "error"
    /\ toggles[call].type = "skip"
    /\ toggles[call].index < FeedLength - 1

\* the delete or the insert of a call is answered and the code that awaited it runs
WriteAnswers(call, ok) ==
    /\ call \in DOMAIN toggles
    /\ toggles[call].pc = "write"
    /\ AutoAdvance(call, ok) => currentIndex < FeedLength - 1 + MaxOvershoot
    /\ tables' = [tables EXCEPT ![TableOf(toggles[call].type)] = Written(call, ok)]
    /\ toggles' = [c \in DOMAIN toggles \ {call} |-> toggles[c]]
    /\ history' = Append(history, [ev |-> "settle",
                                   call |-> call,
                                   type |-> toggles[call].type,
                                   track |-> toggles[call].track,
                                   action |-> ToggleAction(call, ok),
                                   before |-> toggles[call].before,
                                   after |-> \E row \in Written(call, ok) :
                                                row.track = toggles[call].track,
                                   healthy |-> toggles[call].healthy /\ ok])
    /\ currentIndex' = IF AutoAdvance(call, ok) THEN currentIndex + 1 ELSE currentIndex
    /\ last' = [op |-> "settle", call |-> call, requests |-> 0,
                action |-> ToggleAction(call, ok),
                notice |-> ToggleNotice(call, ok)]
    /\ UNCHANGED <<user, renderedIndex, liked, route, interactions>>
    /\ UNCHANGED playerVars
    /\ UNCHANGED policyVars
    /\ UNCHANGED linkVars
    /\ UNCHANGED oauthVars

\* the tracks the user's rows of track_likes mark as liked
LikedTracks == {row.track : row \in tables["track_likes"]}

\* the liked query is fetched again: after an invalidation, on focus, on mount
Refetch ==
    /\ user # Null
    /\ liked # LikedTracks
    /\ liked' = LikedTracks
    /\ last' = [op |-> "refetch", requests |-> 1, notice |-> Null]
    /\ UNCHANGED <<user, tables, toggles, history, currentIndex, renderedIndex, route,
                   interactions>>
    /\ UNCHANGED playerVars
    /\ UNCHANGED policyVars
    /\ UNCHANGED linkVars
    /\ UNCHANGED oauthVars

goToNext ==
    /\ route = "/"
    /\ currentIndex < FeedLength - 1 + MaxOvershoot
    /\ currentIndex' = IF renderedIndex < FeedLength - 1 THEN currentIndex + 1 ELSE currentIndex
    /\ last' = [op |-> "goToNext", requests |-> 0, notice |-> Null]
    /\ UNCHANGED <<user, tables, toggles, history, renderedIndex, liked, route, interactions>>
    /\ UNCHANGED playerVars
    /\ UNCHANGED policyVars
    /\ UNCHANGED linkVars
    /\ UNCHANGED oauthVars

goToPrevious ==
    /\ route = "/"
    /\ currentIndex > -MaxOvershoot
    /\ currentIndex' = IF renderedIndex > 0 THEN currentIndex - 1 ELSE currentIndex
    /\ last' = [op |-> "goToPrevious", requests |-> 0, notice |-> Null]
    /\ UNCHANGED <<user, tables, toggles, history, renderedIndex, liked, route, interactions>>
    /\ UNCHANGED playerVars
    /\ UNCHANGED policyVars
    /\ UNCHANGED linkVars
    /\ UNCHANGED oauthVars

\* FeedPage renders again: its handlers read the hook's index
RenderFeed ==
    /\ route = "/"
    /\ renderedIndex # currentIndex
    /\ renderedIndex' = currentIndex
    /\ last' = [op |-> "renderFeed", requests |-> 0, notice |-> Null]
    /\ UNCHANGED <<user, tables, toggles, history, currentIndex, liked, route, interactions>>
    /\ UNCHANGED playerVars
    /\ UNCHANGED policyVars
    /\ UNCHANGED linkVars
    /\ UNCHANGED oauthVars

\* the updater of setInteractions: the type is removed if the track has it, added if not
ToggleLocal(prev, track, interactionType) ==
    IF <<track, interactionType>> \in prev
      THEN prev \ {<<track, interactionType>>}
      ELSE prev \cup {<<track, interactionType>>}

\* the call of the local handler before this one, if this one follows it directly
PreviousLocal ==
    IF last.op = "handleInteractionLocal" /\ last.toggled # <<>>
      THEN <<last.toggled[1]>>
      ELSE <<>>

\* handleInteraction of the FeedPage that keeps the interactions in local state
handleInteractionLocal(interactionType) ==
    /\ route = "/"
    /\ IF user = Null
         THEN /\ route' = "/auth"
              /\ last' = [op |-> "handleInteractionLocal", requests |-> 0, notice |-> Null,
                          toggled |-> <<>>, previous |-> <<>>]
              /\ UNCHANGED <<interactions, currentIndex>>
         ELSE IF renderedIndex \notin TrackIndexes
           THEN /\ last' = [op |-> "handleInteractionLocal", requests |-> 0, notice |-> Null,
                            toggled |-> <<>>, previous |-> <<>>]
                /\ UNCHANGED <<route, interactions, currentIndex>>
           ELSE /\ currentIndex < FeedLength - 1 + MaxOvershoot
                /\ interactions' = ToggleLocal(interactions, renderedIndex, interactionType)
                /\ currentIndex' = IF interactionType = "skip" /\ renderedIndex < FeedLength - 1
                                     THEN currentIndex + 1
                                     ELSE currentIndex
                /\ last' = [op |-> "handleInteractionLocal", requests |-> 0, notice |-> Null,
                            toggled |-> <<[type |-> interactionType,
                                           track |-> renderedIndex,
                                           before |-> interactions,
                                           after |-> interactions']>>,
                            previous |-> PreviousLocal]
                /\ UNCHANGED route
    /\ UNCHANGED <<user, tables, toggles, history, renderedIndex, liked>>
    /\ UNCHANGED playerVars
    /\ UNCHANGED policyVars
    /\ UNCHANGED linkVars
    /\ UNCHANGED oauthVars

\* the auth page signs the user in and returns to the feed, which mounts afresh
SignedIn ==
    /\ route = "/auth"
    /\ user' = "u1"
    /\ route' = "/"
    /\ currentIndex' = 0
    /\ renderedIndex' = 0
    /\ last' = [op |-> "signedIn", requests |-> 0, notice |-> Null]
    /\ UNCHANGED <<tables, toggles, history, liked, interactions>>
    /\ UNCHANGED playerVars
    /\ UNCHANGED policyVars
    /\ UNCHANGED linkVars
    /\ UNCHANGED oauthVars

\* ------------------------------------------------------------- provider account linking
\* state values a callback may carry: the one initiateSpotifyAuth stored and a foreign one
OAuthStates == {"s1", "s2"}

\* lib: handleSpotifyCallback run by SpotifyCallbackPage in the browser;
\* edge: handleOAuth run by the spotify-oauth-callback function
CallbackVariants == {"lib", "edge"}

\* the tokens the token endpoint hands to a callback
Token(cb) == "token" \o ToString(cb)

\* a token the token endpoint hands out for a refresh token
RefreshedToken == "token0"

\* .eq('state', state).gt('expires_at', now): the unexpired rows of the state value
UnexpiredStates(s) == {row \in oauth_states : row.state = s /\ ~row.expired}

\* initiateSpotifyAuth: storeOAuthState, then the redirect to the consent screen
initiateSpotifyAuth ==
    /\ last.op = "init"
    /\ oauth_states' = IF user = Null
                         THEN oauth_states
                         ELSE oauth_states \cup {[state |-> "s1", expired |-> FALSE]}
    /\ last' = [op |-> "initiateSpotifyAuth", threw |-> user = Null]
    /\ UNCHANGED <<providerTokens, callbacks, exchanges, clientTokens>>
    /\ UNCHANGED playerVars
    /\ UNCHANGED policyVars
    /\ UNCHANGED linkVars
    /\ UNCHANGED feedVars

\* expires_at of a stored state passes
StateExpires ==
    /\ \E row \in oauth_states : ~row.expired
    /\ oauth_states' = {[row EXCEPT !.expired = TRUE] : row \in oauth_states}
    /\ last' = [op |-> "stateExpires"]
    /\ UNCHANGED <<providerTokens, callbacks, exchanges, clientTokens>>
    /\ UNCHANGED playerVars
    /\ UNCHANGED policyVars
    /\ UNCHANGED linkVars
    /\ UNCHANGED feedVars

\* the provider redirects to the callback with a code and a state: the lookup is sent
CallbackArrives(variant, s) ==
    LET cb == Len(callbacks) + 1 IN
    /\ last.op # "init"
    /\ Len(callbacks) < MaxCallbacks
    /\ callbacks' = Append(callbacks, [variant |-> variant,
                                       state |-> s,
                                       pc |-> "lookup",
                                       found |-> FALSE,
                                       exchanged |-> FALSE,
                                       wrote |-> FALSE])
    /\ last' = [op |-> "callbackArrives", cb |-> cb]
    /\ UNCHANGED <<oauth_states, providerTokens, exchanges, clientTokens>>
    /\ UNCHANGED playerVars
    /\ UNCHANGED policyVars
    /\ UNCHANGED linkVars
    /\ UNCHANGED feedVars

\* the lib variant upserts user_providers, store_spotify_tokens writes provider_accounts
TokenTable(variant) == IF variant = "lib" THEN "user_providers" ELSE "provider_accounts"

\* a callback's position moves; the other callbacks stay
Moved(cb, pc) == [callbacks EXCEPT ![cb].pc = pc]

\* the lookup of the state row is answered: validateOAuthState up to its delete,
\* handleOAuth up to fetchSpotifyToken
LookupAnswers(cb, ok) ==
    /\ cb \in DOMAIN callbacks
    /\ callbacks[cb].pc = "lookup"
    /\ LET found == ok /\ UnexpiredStates(callbacks[cb].state) # {} IN
        /\ callbacks' = [callbacks EXCEPT
                            ![cb].found = found,
                            ![cb].pc = IF ~found THEN "error"
                                       ELSE IF callbacks[cb].variant = "lib" THEN "delete"
                                       ELSE "exchange"]
        /\ exchanges' = IF found /\ callbacks[cb].variant = "edge"
                          THEN exchanges + 1
                          ELSE exchanges
    /\ last' = [op |-> "lookup", cb |-> cb]
    /\ UNCHANGED <<oauth_states, providerTokens, clientTokens>>
    /\ UNCHANGED playerVars
    /\ UNCHANGED policyVars
    /\ UNCHANGED linkVars
    /\ UNCHANGED feedVars

\* validateOAuthState's delete is answered; handleSpotifyCallback sends the exchange
DeleteAnswers(cb) ==
    /\ cb \in DOMAIN callbacks
    /\ callbacks[cb].pc = "delete"
    /\ oauth_states' = {row \in oauth_states : row.state # callbacks[cb].state}
    /\ callbacks' = Moved(cb, "exchange")
    /\ exchanges' = exchanges + 1
    /\ last' = [op |-> "delete", cb |-> cb]
    /\ UNCHANGED <<providerTokens, clientTokens>>
    /\ UNCHANGED playerVars
    /\ UNCHANGED policyVars
    /\ UNCHANGED linkVars
    /\ UNCHANGED feedVars

\* the token endpoint answers the exchange; the lib variant reads the tokens in the
\* browser and asks for the profile, the edge variant calls store_spotify_tokens
ExchangeAnswers(cb, ok) ==
    /\ cb \in DOMAIN callbacks
    /\ callbacks[cb].pc = "exchange"
    /\ callbacks' = [callbacks EXCEPT
                        ![cb].exchanged = ok,
                        ![cb].pc = IF ~ok THEN "error"
                                   ELSE IF callbacks[cb].variant = "lib" THEN "profile"
                                   ELSE "store"]
    /\ clientTokens' = IF ok /\ callbacks[cb].variant = "lib"
                         THEN clientTokens \cup {Token(cb)}
                         ELSE clientTokens
    /\ last' = [op |-> "exchange", cb |-> cb]
    /\ UNCHANGED <<oauth_states, providerTokens, exchanges>>
    /\ UNCHANGED playerVars
    /\ UNCHANGED policyVars
    /\ UNCHANGED linkVars
    /\ UNCHANGED feedVars

\* handleSpotifyCallback's profile request is answered; the upsert is sent
ProfileAnswers(cb, ok) ==
    /\ cb \in DOMAIN callbacks
    /\ callbacks[cb].pc = "profile"
    /\ callbacks' = Moved(cb, IF ok THEN "store" ELSE "error")
    /\ last' = [op |-> "profile", cb |-> cb]
    /\ UNCHANGED <<oauth_states, providerTokens, exchanges, clientTokens>>
    /\ UNCHANGED playerVars
    /\ UNCHANGED policyVars
    /\ UNCHANGED linkVars
    /\ UNCHANGED feedVars

\* a store whose failed write has replaced the tokens all the same
StoreAnswersWritesOnError(cb, ok) ==
    /\ cb \in DOMAIN callbacks
    /\ callbacks[cb].pc = "store"
    /\ providerTokens' = [providerTokens EXCEPT ![TokenTable(callbacks[cb].variant)] = Token(cb)]
    /\ callbacks' = [callbacks EXCEPT
                        ![cb].wrote = ok,
                        ![cb].pc = IF ~ok THEN "error"
                                   ELSE IF callbacks[cb].variant = "lib" THEN "success"
                                   ELSE "cleanup"]
    /\ last' = [op |-> "store", cb |-> cb]
    /\ UNCHANGED <<oauth_states, exchanges, clientTokens>>
    /\ UNCHANGED playerVars
    /\ UNCHANGED policyVars
    /\ UNCHANGED linkVars
    /\ UNCHANGED feedVars

\* the upsert of user_providers, or the store_spotify_tokens call, is answered
StoreAnswers(cb, ok) ==
    /\ cb \in DOMAIN callbacks
    /\ callbacks[cb].pc = "store"
    /\ providerTokens' = IF ok
                           THEN [providerTokens EXCEPT ![TokenTable(callbacks[cb].variant)] = Token(cb)]
                           ELSE providerTokens
    /\ callbacks' = [callbacks EXCEPT
                        ![cb].wrote = ok,
                        ![cb].pc = IF ~ok THEN "error"
                                   ELSE IF callbacks[cb].variant = "lib" THEN "success"
                                   ELSE "cleanup"]
    /\ last' = [op |-> "store", cb |-> cb]
    /\ UNCHANGED <<oauth_states, exchanges, clientTokens>>
    /\ UNCHANGED playerVars
    /\ UNCHANGED policyVars
    /\ UNCHANGED linkVars
    /\ UNCHANGED feedVars

\* handleOAuth's delete of the state row is answered; the function redirects to success
CleanupAnswers(cb) ==
    /\ cb \in DOMAIN callbacks
    /\ callbacks[cb].pc = "cleanup"
    /\ oauth_states' = {row \in oauth_states : row.state # callbacks[cb].state}
    /\ callbacks' = Moved(cb, "success")
    /\ last' = [op |-> "cleanup", cb |-> cb]
    /\ UNCHANGED <<providerTokens, exchanges, clientTokens>>
    /\ UNCHANGED playerVars
    /\ UNCHANGED policyVars
    /\ UNCHANGED linkVars
    /\ UNCHANGED feedVars

\* getSpotifyAccessToken in the browser: refreshSpotifyToken for the signed-in user
getSpotifyAccessToken(valid, ok) ==
    LET stored == providerTokens["user_providers"]
        result == IF user = Null \/ stored = Null THEN Null
                  ELSE IF valid THEN stored
                  ELSE IF ok THEN RefreshedToken
                  ELSE Null
    IN
    /\ last.op # "init"
    /\ providerTokens' = IF user # Null /\ stored # Null /\ ~valid /\ ok
                           THEN [providerTokens EXCEPT !["user_providers"] = RefreshedToken]
                           ELSE providerTokens
    /\ clientTokens' = IF result = Null THEN clientTokens ELSE clientTokens \cup {result}
    /\ last' = [op |-> "getSpotifyAccessToken", result |-> result]
    /\ UNCHANGED <<oauth_states, callbacks, exchanges>>
    /\ UNCHANGED playerVars
    /\ UNCHANGED policyVars
    /\ UNCHANGED linkVars
    /\ UNCHANGED feedVars

\* what get_provider_status() returns to the client for the signed-in user
ProviderStatus ==
    IF providerTokens["provider_accounts"] = Null
      THEN <<>>
      ELSE <<[provider |-> "spotify", connected |-> TRUE]>>

\* the client calls the get_provider_status RPC
get_provider_status ==
    /\ last.op # "init"
    /\ user # Null
    /\ last' = [op |-> "get_provider_status", result |-> ProviderStatus]
    /\ UNCHANGED oauthVars
    /\ UNCHANGED playerVars
    /\ UNCHANGED policyVars
    /\ UNCHANGED linkVars
    /\ UNCHANGED feedVars

\* ------------------------------------------------------------- specifications
InitPlayer ==
    /\ state = InitialPlayerState
    /\ value = Captured(InitialPlayerState)
    /\ isMinimized = FALSE
    /\ drawer = DrawerProps(InitialPlayerState, FALSE)
    /\ effectPending = FALSE
    /\ inflight = 0
    /\ seekRequest = "none"
    /\ last = [op |-> "init"]

\* a freshly loaded document
InitBrowser ==
    /\ browser = [location |-> Null, tabs |-> <<>>, iframes |-> {}, toasts |-> <<>>,
                  visible |-> TRUE, calls |-> 0]
    /\ timers = {}

\* nobody signed in, the feed just mounted, nothing stored
InitFeed ==
    /\ user = Null
    /\ tables = [table \in {"track_likes", "user_interactions"} |-> {}]
    /\ toggles = <<>>
    /\ history = <<>>
    /\ currentIndex = 0
    /\ renderedIndex = 0
    /\ liked = {}
    /\ route = "/"
    /\ interactions = {}

\* no OAuth flow started, no provider connected
InitOAuth ==
    /\ oauth_states = {}
    /\ providerTokens = [table \in {"user_providers", "provider_accounts"} |-> Null]
    /\ callbacks = <<>>
    /\ exchanges = 0
    /\ clientTokens = {}

Init ==
    /\ InitPlayer
    /\ preferred = Null
    /\ connected = defaultConnectedProviders
    /\ chosen = Null
    /\ InitBrowser
    /\ InitFeed
    /\ InitOAuth

SessionPayloads == {payload \in OpenPlayerPayload : payload.provider \in SessionProviders}

\* the session: PlayerProvider and the transitions any consumer may call
Next ==
    \/ \E sec \in Secs : seekTo(sec)
    \/ clearSeek
    \/ \E sectionId \in SectionIds \cup {Null} : setCurrentSection(sectionId)
    \/ \E playing \in BOOLEAN : setIsPlaying(playing)
    \/ \E payload \in SessionPayloads : openPlayer(payload)
    \/ closePlayer
    \/ \E provider \in SessionProviders, providerTrackId \in ProviderTrackIds \cup {Null},
          canonicalTrackId \in CanonicalTrackIds \cup {Null} :
            switchProvider(provider, providerTrackId, canonicalTrackId)
    \/ RecordSucceeds
    \/ RecordFails
    \/ RenderProvider

Spec == Init /\ [][Next]_vars

\* payloads that leave the canonical id, autoplay and context to their defaults
DrawerPayloads ==
    {payload \in OpenPlayerPayload :
        /\ payload.canonicalTrackId = Null
        /\ payload.autoplay = None
        /\ payload.context = Null}

\* the session with the drawer and its adapters mounted under it
DrawerNext ==
    \/ \E sec \in Secs : seekTo(sec)
    \/ \E payload \in DrawerPayloads : openPlayer(payload)
    \/ closePlayer
    \/ \E provider \in DrawerProviders, providerTrackId \in ProviderTrackIds \cup {Null} :
            switchProvider(provider, providerTrackId, Null)
    \/ ToggleMinimized
    \/ CloseButton
    \/ Render
    \/ YouTubeSeekEffect

DrawerSpec == Init /\ [][DrawerNext]_vars

\* React runs every render it has scheduled and every passive effect of a commit
DrawerLiveSpec == DrawerSpec /\ WF_vars(Render) /\ WF_vars(YouTubeSeekEffect)

PolicyInit ==
    /\ InitPlayer
    /\ preferred \in PreferenceValues
    /\ connected = defaultConnectedProviders
    /\ chosen = Null
    /\ InitBrowser
    /\ InitFeed
    /\ InitOAuth

PolicyNext ==
    \/ \E p \in PreferenceValues : PreferenceStored(p)
    \/ \E c \in ConnectedValues : ConnectedProvidersFetched(c)
    \/ ResolveDefault

PolicySpec == PolicyInit /\ [][PolicyNext]_vars

\* provider ids handed to the URL synthesis: the known ones and one outside them
FallbackProviders == MusicProvider \cup {"tidal"}

\* the link resolver and the URL synthesis applied to every bounded input
ResolverNext ==
    \/ \E track \in TrackProviderInfo : TrackFetched(track)
    \/ ResolveLinks
    \/ \E provider \in FallbackProviders, trackId \in LegacyIds :
            GenerateFallbackUrl(provider, trackId)

ResolverSpec == Init /\ [][ResolverNext]_vars

\* the link openers, their timers and the foreground signal
OpenerNext ==
    \/ \E link \in OpenerLinks, preferApp \in BOOLEAN, throws \in BOOLEAN :
            openProviderLink(link, preferApp, throws)
    \/ \E link \in TrackProviderLink, preferApp \in BOOLEAN, throws \in BOOLEAN :
            openProviderLinkData(link, preferApp, throws)
    \/ \E link \in OpenerLinks, preferApp \in BOOLEAN : openProviderLinkHidden(link, preferApp)
    \/ \E track \in LegacyTrackInfo : handlePlayOnProvider(track)
    \/ \E timer \in timers : FallbackTimer(timer)
    \/ \E timer \in timers : FallbackDataTimer(timer)
    \/ \E timer \in timers : FallbackHiddenTimer(timer)
    \/ \E timer \in timers : RemoveIframeTimer(timer)
    \/ \E timer \in timers : RemoveWebIframeTimer(timer)
    \/ PageHidden
    \/ PageVisible

OpenerSpec == Init /\ [][OpenerNext]_vars

\* the recorders applied to every bounded input and backend outcome
RecorderNext ==
    \/ \E params \in RecordPlayEventParams, insert \in InsertOutcomes :
            RecordPlayEvent(params, insert)
    \/ \E params \in RecordPlayEventParams, auth \in AuthOutcomes, insert \in InsertOutcomes :
            RecordPlayEventInteraction(params, auth, insert)
    \/ \E params \in RecordPlayEventParams, insert \in InsertOutcomes :
            RecordPlayEventMutation(params, insert)

RecorderSpec == Init /\ [][RecorderNext]_vars

\* rows the user may already have when the feed mounts
StoredLikes == {{}, {[id |-> 0, track |-> 0]}}

FeedInit ==
    /\ InitPlayer
    /\ preferred = Null
    /\ connected = defaultConnectedProviders
    /\ chosen = Null
    /\ InitBrowser
    /\ user \in {Null, "u1"}
    /\ tables \in [{"track_likes", "user_interactions"} -> StoredLikes]
    /\ toggles = <<>>
    /\ history = <<>>
    /\ currentIndex = 0
    /\ renderedIndex = 0
    /\ liked = {}
    /\ route = "/"
    /\ interactions = {}
    /\ InitOAuth

\* the like of the track shown: the handlers in front of it, the hook, the backend
\* answering the calls, the query behind the displayed state
ToggleNext ==
    \/ handleInteraction("like")
    \/ useToggleLike(0)
    \/ handleLike(0)
    \/ \E call \in 1 .. MaxToggles, ok \in BOOLEAN : SelectAnswers(call, ok)
    \/ \E call \in 1 .. MaxToggles, ok \in BOOLEAN : WriteAnswers(call, ok)
    \/ Refetch
    \/ handleInteractionLocal("like")
    \/ SignedIn

ToggleSpec == FeedInit /\ [][ToggleNext]_vars

\* the feed page's navigation: the keys and swipes, the skip and its backend call,
\* the renders
FeedNext ==
    \/ handleInteraction("skip")
    \/ \E call \in 1 .. MaxToggles, ok \in BOOLEAN : SelectAnswers(call, ok)
    \/ \E call \in 1 .. MaxToggles, ok \in BOOLEAN : WriteAnswers(call, ok)
    \/ goToNext
    \/ goToPrevious
    \/ RenderFeed
    \/ handleInteractionLocal("skip")
    \/ SignedIn

FeedSpec == FeedInit /\ [][FeedNext]_vars

OAuthInit ==
    /\ InitPlayer
    /\ preferred = Null
    /\ connected = defaultConnectedProviders
    /\ chosen = Null
    /\ InitBrowser
    /\ user \in {Null, "u1"}
    /\ tables = [table \in {"track_likes", "user_interactions"} |-> {}]
    /\ toggles = <<>>
    /\ history = <<>>
    /\ currentIndex = 0
    /\ renderedIndex = 0
    /\ liked = {}
    /\ route = "/"
    /\ interactions = {}
    /\ InitOAuth

\* account linking: the flow's start, the callbacks, the backend and the provider
\* answering them, and the client's reads
OAuthNext ==
    \/ initiateSpotifyAuth
    \/ StateExpires
    \/ \E variant \in CallbackVariants, s \in OAuthStates : CallbackArrives(variant, s)
    \/ \E cb \in 1 .. MaxCallbacks, ok \in BOOLEAN : LookupAnswers(cb, ok)
    \/ \E cb \in 1 .. MaxCallbacks : DeleteAnswers(cb)
    \/ \E cb \in 1 .. MaxCallbacks, ok \in BOOLEAN : ExchangeAnswers(cb, ok)
    \/ \E cb \in 1 .. MaxCallbacks, ok \in BOOLEAN : ProfileAnswers(cb, ok)
    \/ \E cb \in 1 .. MaxCallbacks, ok \in BOOLEAN : StoreAnswers(cb, ok)
    \/ \E cb \in 1 .. MaxCallbacks : CleanupAnswers(cb)
    \/ \E valid \in BOOLEAN, ok \in BOOLEAN : getSpotifyAccessToken(valid, ok)
    \/ get_provider_status

OAuthSpec == OAuthInit /\ [][OAuthNext]_vars


\* ------------------------------------------------------------- claims
CallOps ==
    {"seekTo", "clearSeek", "setCurrentSection", "setIsPlaying",
     "openPlayer", "closePlayer", "switchProvider"}

\* C1: switchProvider(p, id, c) applied to any prior session state yields open = true,
\* autoplay = true, seekToSec = null, provider = p and providerTrackId = id.
C1_SwitchProviderYields ==
    last.op = "switchProvider" =>
        /\ state.open = TRUE
        /\ state.autoplay = TRUE
        /\ state.seekToSec = None
        /\ state.provider = last.provider
        /\ state.providerTrackId = last.providerTrackId

C1_Witness ==
    /\ last.op = "switchProvider"
    /\ last.provider = "spotify"
    /\ last.providerTrackId = "pt1"
    /\ last.canonicalTrackId = "t1"
    /\ state.open

\* C2 as stated: with the YouTube adapter mounted, a seek requested by seekTo(s) that the
\* adapter observes is posted to the iframe as one command carrying s and cleared at once.
C2_EverySeekToPosted ==
    [][(/\ last'.op = "effect"
        /\ Adapter(drawer) = "YouTubePlayer"
        /\ seekRequest = "seekTo"
        /\ drawer.seekToSec # None)
            => (last'.posted = drawer.seekToSec /\ state'.seekToSec = None)]_vars

\* C2 amended: with the YouTube adapter mounted and its iframe rendered, each run of the
\* seek effect that observes a non-null seekToSec s posts one command carrying s and calls
\* clearSeek at once, and only for a seek requested since the previous command; without
\* the iframe nothing is posted and the session is left as it is; the effect is scheduled
\* whenever a render mounts the adapter or changes the rendered seekToSec.
C2_SeekPostedOnceWithIframe ==
    [][/\ last'.op = "effect" =>
            IF drawer.seekToSec # None /\ IframePresent(drawer)
            THEN /\ last'.posted = drawer.seekToSec
                 /\ state'.seekToSec = None
                 /\ seekRequest # "none"
                 /\ seekRequest' = "none"
            ELSE /\ last'.posted = None
                 /\ state' = state
       /\ (/\ last'.op = "render"
           /\ Adapter(drawer') = "YouTubePlayer"
           /\ drawer'.seekToSec # None
           /\ (Adapter(drawer) # "YouTubePlayer" \/ drawer'.seekToSec # drawer.seekToSec))
                => effectPending']_vars

C2_Witness ==
    /\ last.op = "effect"
    /\ last.posted = Some(1)
    /\ state.seekToSec = None
    /\ IframePresent(drawer)

\* C3: for openPlayer and switchProvider the transition is applied in the step that
\* starts the recording, while the recording is still in flight, and the settling of a
\* recording (success or failure) changes nothing of the session.
C3_RecordingDetached ==
    [][/\ (last'.op \in {"openPlayer", "switchProvider"} /\ last'.event # None)
            => /\ inflight' = inflight + 1
               /\ state'.open
               /\ state'.provider = last'.event[1].provider
       /\ last'.op \in {"recordSucceeded", "recordFailed"}
            => (state' = state /\ value' = value)]_vars

C3_Witness ==
    /\ last.op = "recordFailed"
    /\ state.open
    /\ state.autoplay
    /\ state.canonicalTrackId = "t1"

\* C4: transitions invoked back-to-back, with no render in between, compose in call
\* order: the second sees what the first wrote, and what it does not write is kept.
C4_BackToBackInCallOrder ==
    [][(last.op \in CallOps /\ last'.op \in CallOps) =>
        /\ (last.op = "openPlayer" /\ last'.op = "switchProvider") =>
                /\ state'.open /\ state'.autoplay /\ state'.seekToSec = None
                /\ state'.provider = last'.provider
                /\ state'.providerTrackId = last'.providerTrackId
                /\ state'.canonicalTrackId =
                      IF last'.canonicalTrackId # Null THEN last'.canonicalTrackId
                      ELSE IF last.payload.canonicalTrackId # Null
                           THEN last.payload.canonicalTrackId
                           ELSE state.canonicalTrackId
        /\ (last.op = "switchProvider" /\ last'.op = "openPlayer") =>
                /\ state'.open
                /\ state'.provider = last'.payload.provider
                /\ state'.providerTrackId = last'.payload.providerTrackId
                /\ state'.canonicalTrackId =
                      IF last'.payload.canonicalTrackId # Null
                      THEN last'.payload.canonicalTrackId
                      ELSE IF last.canonicalTrackId # Null
                           THEN last.canonicalTrackId
                           ELSE state.canonicalTrackId
        /\ (last.op = "setCurrentSection" /\ last'.op = "seekTo") =>
                /\ state'.currentSectionId = last.sectionId
                /\ state'.seekToSec = Some(last'.sec)
        /\ last'.op \in {"seekTo", "clearSeek", "setCurrentSection", "setIsPlaying", "closePlayer"} =>
                /\ state'.canonicalTrackId = state.canonicalTrackId
                /\ state'.provider = state.provider
                /\ state'.providerTrackId = state.providerTrackId
        /\ last'.op \in {"seekTo", "clearSeek", "setCurrentSection", "setIsPlaying"} =>
                /\ state'.open = state.open
                /\ state'.autoplay = state.autoplay]_vars

C4_Witness ==
    /\ last.op = "switchProvider"
    /\ last.canonicalTrackId = Null
    /\ last.held = "t1"
    /\ value.canonicalTrackId = Null
    /\ state.canonicalTrackId = "t1"
    /\ state.provider = "spotify"

\* C5: every switchProvider call for which a canonical track id is passed in or held by
\* the session starts one recording with action "preview" and context "provider-switch",
\* attributed to the id passed in or, when omitted, to the id the session holds when the
\* call is applied.
C5_SwitchRecordsHeldTrack ==
    (last.op = "switchProvider" /\ Coalesce(last.canonicalTrackId, last.held) # Null) =>
        last.event = Some([track_id |-> Coalesce(last.canonicalTrackId, last.held),
                           provider |-> last.provider,
                           action |-> "preview",
                           context |-> "provider-switch"])

\* C6: openPlayer(payload) from any state sets open = true, provider and providerTrackId
\* from the payload, autoplay to the payload value or true when omitted, seekToSec to the
\* payload start second or null when omitted, and canonicalTrackId to the payload value
\* or, when omitted, to the previous canonicalTrackId.
C6_OpenPlayerYields ==
    [][last'.op = "openPlayer" =>
        /\ state'.open = TRUE
        /\ state'.provider = last'.payload.provider
        /\ state'.providerTrackId = last'.payload.providerTrackId
        /\ state'.autoplay =
              (IF last'.payload.autoplay = None THEN TRUE ELSE last'.payload.autoplay[1])
        /\ state'.seekToSec = last'.payload.startSec
        /\ state'.canonicalTrackId =
              (IF last'.payload.canonicalTrackId = Null
               THEN state.canonicalTrackId
               ELSE last'.payload.canonicalTrackId)]_vars

C6_Witness ==
    /\ last.op = "openPlayer"
    /\ last.payload.canonicalTrackId = Null
    /\ last.payload.autoplay = None
    /\ last.payload.startSec = None
    /\ state.canonicalTrackId = "t1"
    /\ state.autoplay
    /\ state.seekToSec = None

\* C7: closePlayer() from any state sets open = false, autoplay = false and
\* seekToSec = null and leaves canonicalTrackId, provider and providerTrackId as they were.
C7_ClosePlayerRetainsContext ==
    [][last'.op = "closePlayer" =>
        /\ state'.open = FALSE
        /\ state'.autoplay = FALSE
        /\ state'.seekToSec = None
        /\ state'.canonicalTrackId = state.canonicalTrackId
        /\ state'.provider = state.provider
        /\ state'.providerTrackId = state.providerTrackId]_vars

C7_Witness ==
    /\ last.op = "closePlayer"
    /\ ~state.open
    /\ state.canonicalTrackId = "t1"
    /\ state.provider = "spotify"
    /\ state.providerTrackId = "pt1"

\* C8: a stored preference that is a concrete provider other than spotify is returned
\* whatever the connected status.
C8_OtherPreferenceReturned ==
    (/\ last.op = "resolveDefaultProvider"
     /\ last.preferred \in {"youtube", "apple_music", "deezer", "soundcloud", "amazon_music"})
        => last.result = last.preferred

\* C9: with the stored preference spotify or unset, the policy returns "spotify" if
\* connectedStatus.spotify.connected is true and "youtube" otherwise.
C9_SpotifyGated ==
    (last.op = "resolveDefaultProvider" /\ last.preferred \in {"spotify", Null, "none"}) =>
        last.result =
            (IF last.connected \in
                    {Some([spotify |-> Some([connected |-> TRUE, premium |-> p])]) : p \in BOOLEAN}
             THEN "spotify"
             ELSE "youtube")

C9_Witness ==
    /\ last.op = "resolveDefaultProvider"
    /\ last.preferred = "spotify"
    /\ last.connected = Some([spotify |-> Some([connected |-> FALSE, premium |-> FALSE])])
    /\ last.result = "youtube"

\* C10: for every preference value (unset and unrecognised included) and every connected
\* status (a missing spotify entry included) the policy returns one provider id.
C10_PolicyTotal ==
    last.op = "resolveDefaultProvider" => (last.result \in MusicProvider /\ chosen = last.result)

C10_Witness ==
    /\ last.op = "resolveDefaultProvider"
    /\ last.preferred = "last.fm"
    /\ last.connected = Some([spotify |-> None])
    /\ last.result = "youtube"

\* C11: the list the link resolver returns holds at most one entry per provider id,
\* whether the links come from the normalized provider-link list or from the legacy fields
C11_OneEntryPerProvider ==
    (last.op = "getProviderLinks" /\ ~last.result.threw) =>
        \A i, j \in 1..Len(last.result.links) :
            i # j => last.result.links[i].provider # last.result.links[j].provider

C11_Witness ==
    /\ last.op = "getProviderLinks"
    /\ HasProviderLinks(last.track)
    /\ Truthy(last.track.spotifyId)
    /\ Truthy(last.track.youtubeId)
    /\ Len(last.result.links) = 2
    /\ last.result.links[1].provider = "youtube"
    /\ last.result.links[2].provider = "spotify"

\* C12: for a track whose only provider data is the legacy field youtube_id = "abc" the
\* resolver returns one YouTube link whose web URL is https://www.youtube.com/watch?v=abc
\* and whose app URL is vnd.youtube://watch?v=abc
C12_LegacyYoutubeLink ==
    (/\ last.op = "getProviderLinks"
     /\ last.track = [spotifyId |-> Null, youtubeId |-> "abc", urlSpotifyWeb |-> Null,
                      urlSpotifyApp |-> Null, urlYoutube |-> Null, providerLinks |-> None]) =>
        /\ ~last.result.threw
        /\ Len(last.result.links) = 1
        /\ last.result.links[1].provider = "youtube"
        /\ last.result.links[1].webUrl = "https://www.youtube.com/watch?v=abc"
        /\ last.result.links[1].appUrl = "vnd.youtube://watch?v=abc"

\* C13: in the legacy-field branch the resolved web URL of a provider is its explicit URL
\* field when that field is set, and is synthesized from the provider track id only when
\* no explicit URL field is set
C13_ExplicitUrlFirst ==
    (last.op = "getProviderLinks" /\ ~HasProviderLinks(last.track)) =>
        \A i \in 1..Len(last.result.links) :
            LET link == last.result.links[i]
            IN  /\ link.provider = "spotify" =>
                       link.webUrl = IF Truthy(last.track.urlSpotifyWeb)
                                     THEN last.track.urlSpotifyWeb
                                     ELSE generateSpotifyLinks(last.track.spotifyId).web
                /\ link.provider = "youtube" =>
                       link.webUrl = IF Truthy(last.track.urlYoutube)
                                     THEN last.track.urlYoutube
                                     ELSE generateYoutubeLink(last.track.youtubeId)

\* C14: for a track with a non-empty normalized provider-link list (rows of known
\* providers) the resolver output is that list restricted to the rows having a web or an
\* app URL, in the same relative order, each web and app URL being the backend's value
C14_NormalizedVerbatim ==
    (/\ last.op = "getProviderLinks"
     /\ HasProviderLinks(last.track)
     /\ \A i \in 1..Len(last.track.providerLinks[1]) :
            last.track.providerLinks[1][i].provider \in MusicProvider) =>
        LET kept == SelectSeq(last.track.providerLinks[1],
                              LAMBDA row : Truthy(row.url_web) \/ Truthy(row.url_app))
            links == last.result.links
        IN  /\ ~last.result.threw
            /\ Len(links) = Len(kept)
            /\ \A i \in 1..Len(kept) :
                   /\ links[i].provider = kept[i].provider
                   /\ links[i].trackId = kept[i].provider_track_id
                   /\ Truthy(kept[i].url_web) => links[i].webUrl = kept[i].url_web
                   /\ ~Truthy(kept[i].url_web) => ~Truthy(links[i].webUrl)
                   /\ links[i].appUrl = kept[i].url_app

C14_Witness ==
    /\ last.op = "getProviderLinks"
    /\ HasProviderLinks(last.track)
    /\ Truthy(last.track.spotifyId)
    /\ Len(last.track.providerLinks[1]) = 2
    /\ last.track.providerLinks[1][1] =
           [provider |-> "youtube", provider_track_id |-> "abc", url_web |-> Null, url_app |-> Null]
    /\ last.track.providerLinks[1][2].provider = "spotify"
    /\ Len(last.result.links) = 1
    /\ last.result.links[1].webUrl = BackendUrlWeb("spotify")
    /\ last.result.links[1].appUrl = BackendUrlApp("spotify")

\* C15: URL synthesis and link resolution given a provider id outside the known provider
\* set yield no link for it and never throw
C15_UnknownProviderNoLink ==
    /\ (last.op = "generateFallbackUrl" /\ last.provider \notin MusicProvider) =>
           last.result = Null
    /\ (/\ last.op = "getProviderLinks"
        /\ HasProviderLinks(last.track)
        /\ \E i \in 1..Len(last.track.providerLinks[1]) :
               last.track.providerLinks[1][i].provider \notin MusicProvider) =>
           /\ ~last.result.threw
           /\ \A i \in 1..Len(last.result.links) :
                  last.result.links[i].provider \in MusicProvider

\* C16: openProviderLink(link, preferApp = true) on a link with an app URL navigates to
\* the app URL, starts a 1500 ms timer and opens no tab; when the timer fires the web URL
\* is opened in a new tab if the page is still the visible foreground document and is not
\* opened otherwise
C16_AppThenTimedWebFallback ==
    [][/\ (/\ last'.op \in {"openProviderLink", "openProviderLinkHidden"}
           /\ last'.preferApp
           /\ Truthy(last'.link.appUrl)) =>
              /\ browser'.location = last'.link.appUrl
              /\ \E timer \in timers' \ timers : timer.due = 1500
              /\ browser'.tabs = browser.tabs
       /\ (/\ last'.op = "openProviderLinkData"
           /\ last'.preferApp
           /\ Truthy(last'.link.url_app)) =>
              /\ browser'.location = last'.link.url_app
              /\ \E timer \in timers' \ timers : timer.due = 1500
              /\ browser'.tabs = browser.tabs
       /\ last'.op \in {"fallbackTimer", "fallbackHiddenTimer"} =>
              browser'.tabs = IF browser.visible
                              THEN Append(browser.tabs, last'.link.webUrl)
                              ELSE browser.tabs
       /\ last'.op = "fallbackDataTimer" =>
              browser'.tabs = IF browser.visible
                              THEN Append(browser.tabs, last'.link.url_web)
                              ELSE browser.tabs
      ]_vars

\* C17: openProviderLink on a link with neither a web URL nor an app URL shows the
\* "no link available" notice, opens nothing and does not throw, whatever preferApp is
C17_NoLinkNotice ==
    [][((/\ last'.op \in {"openProviderLink", "openProviderLinkHidden"}
         /\ ~Truthy(last'.link.webUrl)
         /\ ~Truthy(last'.link.appUrl))
        \/ (/\ last'.op = "openProviderLinkData"
            /\ ~Truthy(last'.link.url_web)
            /\ ~Truthy(last'.link.url_app))) =>
           /\ Len(browser'.toasts) = Len(browser.toasts) + 1
           /\ browser'.tabs = browser.tabs
           /\ browser'.location = browser.location
           /\ browser'.iframes = browser.iframes
           /\ timers' = timers
           /\ ~last'.threw
      ]_vars

\* C18: whenever the drawer mounts an adapter, the adapter is the one of the session's
\* provider: the Spotify embed exactly when the provider is spotify, the YouTube player
\* exactly when the provider is youtube, whatever the track ids and the other fields
C18_AdapterMatchesProvider ==
    Adapter(drawer) # "none" =>
        /\ (Adapter(drawer) = "SpotifyEmbedPreview") <=> (drawer.provider = "spotify")
        /\ (Adapter(drawer) = "YouTubePlayer") <=> (drawer.provider = "youtube")

\* C19: with no connected provider and no stored preference, playing a track that has
\* both a Spotify and a YouTube link chooses youtube, hands the YouTube link to the link
\* opener and opens its web URL in a new tab
C19_NoPreferencePlaysYoutubeWeb ==
    [][(/\ last'.op = "handlePlayOnProvider"
        /\ preferred = Null
        /\ ~SpotifyConnected(connected)
        /\ Truthy(last'.track.spotifyId) \/ Truthy(last'.track.urlSpotifyWeb)
        /\ Truthy(last'.track.youtubeId) \/ Truthy(last'.track.urlYoutube)) =>
           /\ resolveDefaultProvider(connected) = "youtube"
           /\ last'.link # None
           /\ last'.link[1].provider = "youtube"
           /\ browser'.tabs = Append(browser.tabs, last'.link[1].webUrl)
      ]_vars

\* C20: a call to the play-event recorder never propagates a failure to its caller:
\* whether the backend insert fails or the network call rejects, the call completes
\* without throwing or rejecting
C20_RecorderNeverRejects ==
    last.op \in {"recordPlayEvent", "recordPlayEventInteraction", "recordPlayEventMutation"} =>
        last.result.settled = "resolved"

\* C24: in every reachable session state, open = false implies seekToSec = null and
\* autoplay = false
C24_ClosedHasNoSeekNoAutoplay ==
    ~state.open => (state.seekToSec = None /\ ~state.autoplay)

\* C25 as stated: once the user stops acting with the player open, a requested seek does
\* not stay pending: seekToSec returns to null, whichever adapter is active and whether
\* the drawer body is expanded or minimized
C25_SeekEventuallyCleared ==
    <>[](last.op \in {"render", "effect"} /\ state.open) => <>[](state.seekToSec = None)

\* C25 amended: a seekTo(s) that changes the seek target while the player is open, the
\* drawer expanded and the YouTube adapter showing its iframe is followed by seekToSec
\* returning to null, unless the user makes another transition first
C25_SeekClearedByYouTubeAdapter ==
    (/\ last.op = "seekTo"
     /\ state.open
     /\ IframePresent(drawer)
     /\ drawer = DrawerProps([state EXCEPT !.seekToSec = drawer.seekToSec], isMinimized)
     /\ state.seekToSec # drawer.seekToSec)
        ~> (\/ state.seekToSec = None
            \/ /\ last.op \notin {"render", "effect"}
               /\ ~(/\ last.op = "seekTo"
                    /\ state.open
                    /\ IframePresent(drawer)
                    /\ drawer = DrawerProps([state EXCEPT !.seekToSec = drawer.seekToSec],
                                            isMinimized)
                    /\ state.seekToSec # drawer.seekToSec))

C25_Witness ==
    /\ last.op = "effect"
    /\ last.posted = Some(0)
    /\ seekRequest = "none"
    /\ state.open
    /\ ~isMinimized
    /\ state.provider = "youtube"
    /\ state.seekToSec = None
    /\ drawer.seekToSec = Some(0)

C22_FailedToggleKeepsDisplay ==
    [][/\ last'.op \in {"handleInteraction", "handleLike", "useToggleLike", "select", "settle"} =>
            liked' = liked
       /\ (last'.op = "settle" /\ last'.action = "error") =>
            /\ last'.notice \in {"Failed to save interaction", "Failed to update like"}
            /\ tables' = tables
            /\ interactions' = interactions
            /\ UNCHANGED playerVars
      ]_vars

C22_Witness ==
    /\ last.op = "settle"
    /\ last.action = "error"
    /\ last.notice = "Failed to update like"
    /\ liked = {0}
    /\ tables["track_likes"] # {}

\* the calls of a behaviour whose every backend answer was a healthy one
AllHealthy ==
    /\ \A call \in DOMAIN toggles : toggles[call].healthy
    /\ \A i \in 1 .. Len(history) : history[i].ev = "settle" => history[i].healthy

\* C26: concurrent toggle calls for the same user, track and interaction type behave as
\* if executed one after another in some order: on a healthy backend each call flips the
\* presence of the row and returns the matching 'added' or 'removed' result, none fails,
\* and at most one row per (user, track) ever exists
C26_ConcurrentTogglesSerial ==
    /\ \A row1, row2 \in tables["track_likes"] : row1.track = row2.track => row1 = row2
    /\ \A i \in 1 .. Len(history) :
            (history[i].ev = "settle" /\ history[i].healthy) => history[i].action # "error"
    /\ (AllHealthy /\ toggles = <<>> /\ Len(history) = 4 /\ history[2].ev = "start") =>
            /\ {history[3].action, history[4].action} = {"added", "removed"}
            /\ history[4].after = history[3].before

\* C27: on the feed page with a non-empty track list, currentIndex always stays within
\* 0 .. tracks.length - 1 under any sequence of goToNext, goToPrevious and skip
\* interactions, including several navigation calls handled before a re-render and a skip
\* whose backend call completes after the user has navigated in the meantime
C27_IndexWithinList ==
    route = "/" => currentIndex \in TrackIndexes

\* history[i .. i+3] is a call that starts and settles with no other call in flight,
\* directly followed by a second such call
Successive(i) ==
    /\ i + 3 <= Len(history)
    /\ history[i].ev = "start"
    /\ history[i + 1].ev = "settle"
    /\ history[i + 2].ev = "start"
    /\ history[i + 3].ev = "settle"
    /\ Cardinality({j \in 1 .. (i - 1) : history[j].ev = "start"})
         = Cardinality({j \in 1 .. (i - 1) : history[j].ev = "settle"})

Opposite(action) == IF action = "added" THEN "removed" ELSE "added"

\* C30: two successive, non-overlapping, successful toggle calls for the same user, track
\* and interaction type restore the stored state to what it was before the first call:
\* the first returns 'added' exactly when no row existed, the second returns the opposite
C30_TwoTogglesRestore ==
    /\ \A i \in 1 .. Len(history) :
            (/\ Successive(i)
             /\ history[i + 1].action # "error"
             /\ history[i + 3].action # "error"
             /\ history[i + 1].type = history[i + 3].type
             /\ history[i + 1].track = history[i + 3].track) =>
                /\ history[i + 1].action = "added" <=> ~history[i + 1].before
                /\ history[i + 3].action = Opposite(history[i + 1].action)
                /\ history[i + 3].after = history[i + 1].before
    /\ (/\ last.op = "handleInteractionLocal"
         /\ last.toggled # <<>>
         /\ last.previous # <<>>
         /\ last.toggled[1].type = last.previous[1].type
         /\ last.toggled[1].track = last.previous[1].track) =>
            last.toggled[1].after = last.previous[1].before

C30_Witness ==
    /\ Len(history) = 4
    /\ Successive(1)
    /\ history[2].action = "added"
    /\ history[4].action = "removed"
    /\ ~history[2].before
    /\ ~history[4].after
    /\ tables["track_likes"] = {}

\* C23: no provider access token or refresh token is ever returned to, or readable by,
\* client-side code: every token read, exchange and refresh happens in server-side
\* functions, and the client only ever receives non-sensitive connection status
C23_NoTokenInClient ==
    /\ clientTokens = {}
    /\ last.op = "getSpotifyAccessToken" => last.result = Null
    /\ last.op = "get_provider_status" =>
            \A i \in 1 .. Len(last.result) : DOMAIN last.result[i] = {"provider", "connected"}

\* the callbacks of a state value that ended in the success outcome
Successes(s) == {cb \in DOMAIN callbacks : callbacks[cb].state = s /\ callbacks[cb].pc = "success"}

\* C28: a given OAuth state value completes at most one successful callback: once a
\* callback has used it the state row is deleted, and a second callback carrying the same
\* state, whether it arrives later or is processed concurrently, is rejected and performs
\* no token exchange
C28_StateUsedOnce ==
    /\ \A s \in OAuthStates :
            /\ Cardinality(Successes(s)) <= 1
            /\ Successes(s) # {} => ~\E row \in oauth_states : row.state = s
    /\ exchanges <= 1

====
